---- MODULE Spec2Model ----
(***************************************************************************)
(* The confidence-governed incident decision pipeline:                     *)
(*   interpreter -> oracle_evidence -> knowledge -> orchestrator           *)
(*               -> (human_approval) -> END                                *)
(*                                                                         *)
(* Numbers.  Scores (similarity_score, confidence, the weights and the     *)
(* threshold) are integers in hundredths; distances are integers in        *)
(* thousandths; success_rate is an exact fraction [num, den].  Python's    *)
(* round(x, 2) is modelled by RoundHalfEven on the exact value: for the    *)
(* inputs drawn here the exact value is never within float error of a      *)
(* rounding tie (fewer than 16 records, or a two-decimal grid, give no     *)
(* tie in the confidence; the sample distances have no third decimal 5).   *)
(*                                                                         *)
(* Optional values.  A Python None is None (the empty tuple) and a value   *)
(* v is Some(v); the shared state is a dict, modelled as a function whose  *)
(* DOMAIN is the set of keys present.                                      *)
(***************************************************************************)
EXTENDS Integers, Sequences, FiniteSets, TLC

VARIABLES
    state,      \* the shared IncidentState dict threaded through the nodes
    pc,         \* the node the graph runs next, "END", or "RAISED"
    visited,    \* the nodes that have run, in order
    failed,     \* the external calls that have raised so far
    conn,       \* the store connection: "never", "open" or "closed"
    reply_json, \* what json.loads made of the classifier's reply ("none" before it)
    fetched_row, \* the row cursor.fetchone returned, None when no query ran
    answer,     \* what the reviewer typed at the Human Gate, None before it
    playbooks   \* Some(the rows of incident_playbooks) when the run is against
                \* a given table, None when each query may find any table

vars == <<state, pc, visited, failed, conn, reply_json, fetched_row, answer, playbooks>>

\* ------------------------------------------------------------ bounds
\* The largest number of rows of incident_playbooks.
MaxRecords == 2

\* ------------------------------------------------------------ config/settings.py
CONFIDENCE_THRESHOLD == 75
SIMILARITY_WEIGHT == 60
SUCCESS_WEIGHT == 40
NO_EVIDENCE_CONFIDENCE == 30
ERROR_CONFIDENCE == 0
MAX_VECTOR_DISTANCE == 600

INCIDENT_TYPES ==
    {"service_outage", "service_degradation", "configuration_error",
     "deployment_issue", "unknown_but_classified"}

AFFECTED_AREAS == {"payments", "login", "orders", "delivery", "general"}

\* ------------------------------------------------------------ Python values
None == <<>>
Some(v) == <<v>>

\* d[k] = v on a dict
Put(d, k, v) == [x \in (DOMAIN d) \cup {k} |-> IF x = k THEN v ELSE d[x]]

\* d.get(k)
Get(d, k) == IF k \in DOMAIN d THEN d[k] ELSE None

\* what a node hands back to the graph: the state, or an exception
Return(s) == [state |-> s, raised |-> FALSE]
Raise(s) == [state |-> s, raised |-> TRUE]

\* ------------------------------------------------------------ arithmetic
RECURSIVE GCD(_, _)
GCD(a, b) == IF b = 0 THEN a ELSE GCD(b, a % b)

\* the fraction n/d in lowest terms (d > 0)
Rat(n, d) == LET g == GCD(n, d) IN [num |-> n \div g, den |-> d \div g]

\* round(x/d) to the nearest integer, ties to even (x >= 0, d > 0)
RoundHalfEven(x, d) ==
    LET q == x \div d
        r == x % d
    IN  IF 2 * r < d THEN q
        ELSE IF 2 * r > d THEN q + 1
        ELSE IF q % 2 = 0 THEN q ELSE q + 1

\* max(a, b)
Max(a, b) == IF a >= b THEN a ELSE b

\* ------------------------------------------------------------ main.py
Descriptions == {"", "payment page times out"}

initial_state(user_description) ==
    [user_description |-> user_description,
     incident_signature |-> None,
     oracle_evidence |-> None,
     knowledge_signal |-> None,
     confidence |-> None,
     requires_human |-> None,
     final_decision |-> None]

\* ------------------------------------------------------------ interpreter
\* What json.loads makes of the model's reply: the reply is no JSON
\* ("invalid"), a JSON value that is no object ("list", "string", "number"),
\* or an object, given as the dict json.loads returns.
TypeReplies == {"service_outage", "unknown_but_classified", "meltdown"}
AreaReplies == {"payments", "general", "checkout"}
ContextReplies == {"card declined at checkout", ""}

ObjectKeys == {"incident_type", "affected_area", "context", "severity"}

ReplyValues(k) ==
    CASE k = "incident_type" -> TypeReplies
      [] k = "affected_area" -> AreaReplies
      [] k = "context" -> ContextReplies
      [] OTHER -> {"high"}

JsonObjects ==
    UNION {{o \in [keys -> UNION {ReplyValues(k) : k \in keys}] :
                \A k \in keys : o[k] \in ReplyValues(k)} :
           keys \in SUBSET ObjectKeys}

ClassifierReplies ==
    {[kind |-> "raise"]}
    \cup {[kind |-> "text", json |-> j] : j \in {"invalid", "list", "string", "number"}}
    \cup {[kind |-> "text", json |-> "object", obj |-> o] : o \in JsonObjects}

FALLBACK_SIGNATURE ==
    [incident_type |-> "unknown_but_classified",
     affected_area |-> "general",
     context |-> "unspecified"]

\* a normalization that distrusts the type of an incident in the general
\* area, and looks at the area before coercing it
Normalize_DistrustsGeneral(parsed) ==
    LET p1 == IF ("incident_type" \notin DOMAIN parsed)
                 \/ parsed["incident_type"] \notin INCIDENT_TYPES
                 \/ ("affected_area" \in DOMAIN parsed
                        /\ parsed["affected_area"] = "general")
              THEN Put(parsed, "incident_type", "unknown_but_classified")
              ELSE parsed
        p2 == IF ("affected_area" \notin DOMAIN p1)
                 \/ p1["affected_area"] \notin AFFECTED_AREAS
              THEN Put(p1, "affected_area", "general")
              ELSE p1
        p3 == IF ("context" \notin DOMAIN p2) \/ p2["context"] = ""
              THEN Put(p2, "context", "unspecified")
              ELSE p2
    IN  p3

\* the normalization block
Normalize(parsed) ==
    LET p1 == IF ("incident_type" \notin DOMAIN parsed)
                 \/ parsed["incident_type"] \notin INCIDENT_TYPES
              THEN Put(parsed, "incident_type", "unknown_but_classified")
              ELSE parsed
        p2 == IF ("affected_area" \notin DOMAIN p1)
                 \/ p1["affected_area"] \notin AFFECTED_AREAS
              THEN Put(p1, "affected_area", "general")
              ELSE p1
        p3 == IF ("context" \notin DOMAIN p2) \/ p2["context"] = ""
              THEN Put(p2, "context", "unspecified")
              ELSE p2
    IN  p3

\* a classifier whose json.loads is not in a try: a malformed reply raises
incident_understanding_agent_NoFallback(s, reply) ==
    IF reply.kind = "raise"
    THEN Raise(s)
    ELSE IF reply.json # "object"
    THEN Raise(s)
    ELSE Return(Put(s, "incident_signature", Some(Normalize(reply.obj))))

incident_understanding_agent(s, reply) ==
    IF reply.kind = "raise"
    THEN Raise(s)                       \* llm.invoke is outside the try
    ELSE IF reply.json = "invalid"
    THEN Return(Put(s, "incident_signature", Some(Normalize(FALLBACK_SIGNATURE))))
    ELSE IF reply.json # "object"
    THEN Raise(s)                       \* parsed.get on a list, str or number
    ELSE Return(Put(s, "incident_signature", Some(Normalize(reply.obj))))

\* ------------------------------------------------------------ oracle_evidence
\* incident_playbooks: a function from the ids present to rows
\* [distance (thousandths, to the query vector), action_taken, success].
DistanceValues == {0, 418, 432, 600, 601}
ActionValues == {Some("restart payment gateway"), Some("rollback deployment"), None}
SuccessValues == {0, 1}

PlaybookRows == [distance : DistanceValues, action_taken : ActionValues,
                 success : SuccessValues]

Tables == UNION {[ids -> PlaybookRows] : ids \in SUBSET (1 .. MaxRecords)}

RECURSIVE SumSuccess(_, _)
SumSuccess(t, ids) ==
    IF ids = {} THEN 0
    ELSE LET i == CHOOSE x \in ids : TRUE
         IN  t[i].success + SumSuccess(t, ids \ {i})

\* a ranking by id alone: the best action is the oldest row's
FirstRanked_ById(t) ==
    CHOOSE i \in DOMAIN t : \A j \in DOMAIN t : i <= j

\* the first row under ORDER BY VECTOR_DISTANCE(embedding, :query_vec), id
FirstRanked(t) ==
    CHOOSE i \in DOMAIN t :
        \A j \in DOMAIN t :
            \/ t[i].distance < t[j].distance
            \/ (t[i].distance = t[j].distance /\ i <= j)

\* MIN(VECTOR_DISTANCE(embedding, :query_vec))
MinDistance(t) ==
    CHOOSE d \in {t[i].distance : i \in DOMAIN t} :
        \A j \in DOMAIN t : d <= t[j].distance

\* the one row the aggregate query returns:
\* <<total_matches, success_ratio, best_action, best_distance>>
Aggregate(t) ==
    IF DOMAIN t = {}
    THEN <<0, None, None, None>>
    ELSE <<Cardinality(DOMAIN t),
           Some(Rat(SumSuccess(t, DOMAIN t), Cardinality(DOMAIN t))),
           t[FirstRanked(t)].action_taken,
           Some(MinDistance(t))>>

\* a similarity score cut to two decimals instead of rounded
SimilarityScore_Truncates(best_distance) ==
    Max(0, 1000 - best_distance) \div 10

\* round(max(0.0, 1.0 - best_distance), 2), in hundredths
SimilarityScore(best_distance) ==
    RoundHalfEven(Max(0, 1000 - best_distance), 10)

\* the points where the retriever can raise: generate_embedding,
\* oracledb.connect, cursor.execute, cursor.fetchone, or none of them
StoreFaults == {"none", "embedding", "connect", "execute", "fetch"}

StoreOutcomes ==
    {[fault |-> f, table |-> << >>] : f \in StoreFaults \ {"none"}}
    \cup {[fault |-> "none", table |-> t] : t \in Tables}

EvidenceResult(s, c, f) ==
    [state |-> s, raised |-> FALSE, conn |-> c, failed |-> f, row |-> None]

NotFound(s) == Put(Put(s, "oracle_evidence", None), "evidence_status", "NOT_FOUND")

\* an except block that reports the fault as a missing match
HardFailure_AsNotFound(s) ==
    Put(Put(s, "oracle_evidence", None), "evidence_status", "NOT_FOUND")

\* an except block that also decides that a human is needed
HardFailure_SetsRequiresHuman(s) ==
    Put(Put(Put(s, "oracle_evidence", None), "evidence_status", "ERROR"),
        "requires_human", Some(TRUE))

\* the except block
HardFailure(s) == Put(Put(s, "oracle_evidence", None), "evidence_status", "ERROR")

\* an except clause too narrow for the fault: the exception leaves the node
Except_Reraises(s, fault) ==
    [state |-> s, raised |-> TRUE,
     conn |-> IF fault \in {"execute", "fetch"} THEN "open" ELSE "never",
     failed |-> {fault}, row |-> None]

\* the except block: the fault is absorbed; a connection opened before the
\* fault is not closed by it
Except(s, fault) ==
    EvidenceResult(HardFailure(s),
                   IF fault \in {"execute", "fetch"} THEN "open" ELSE "never",
                   {fault})

\* a retriever that populates the evidence before rejecting a weak match
RowOutcome_PopulatesFirst(s, row) ==
    IF row[1] = 0
    THEN EvidenceResult(NotFound(s), "closed", {})
    ELSE LET populated ==
                 Put(s, "oracle_evidence",
                     Some([incident_count |-> row[1],
                           success_rate |-> row[2][1],
                           common_resolution |-> row[3],
                           similarity_score |-> SimilarityScore(row[4][1])]))
         IN  IF row[4][1] > MAX_VECTOR_DISTANCE
             THEN EvidenceResult(Put(populated, "evidence_status", "NOT_FOUND"), "closed", {})
             ELSE EvidenceResult(Put(populated, "evidence_status", "FOUND"), "closed", {})

\* a retriever that also rejects a best distance equal to the maximum
RowOutcome_RejectsAtMaximum(s, row) ==
    IF row[1] = 0
    THEN EvidenceResult(NotFound(s), "closed", {})
    ELSE IF row[4][1] >= MAX_VECTOR_DISTANCE
    THEN EvidenceResult(NotFound(s), "closed", {})
    ELSE EvidenceResult(
            Put(Put(s, "oracle_evidence",
                    Some([incident_count |-> row[1],
                          success_rate |-> row[2][1],
                          common_resolution |-> row[3],
                          similarity_score |-> SimilarityScore(row[4][1])])),
                "evidence_status", "FOUND"),
            "closed", {})

\* what the retriever makes of the fetched row, after closing the connection
RowOutcome(s, row) ==
    IF row[1] = 0
    THEN EvidenceResult(NotFound(s), "closed", {})
    ELSE IF row[4][1] > MAX_VECTOR_DISTANCE
    THEN EvidenceResult(NotFound(s), "closed", {})
    ELSE EvidenceResult(
            Put(Put(s, "oracle_evidence",
                    Some([incident_count |-> row[1],
                          success_rate |-> row[2][1],
                          common_resolution |-> row[3],
                          similarity_score |-> SimilarityScore(row[4][1])])),
                "evidence_status", "FOUND"),
            "closed", {})

\* a retriever without the input validation: it embeds and queries anyway
oracle_evidence_agent_NoValidation(s, outcome) ==
    IF outcome.fault # "none"
    THEN Except(s, outcome.fault)
    ELSE LET fetched == Aggregate(outcome.table)
         IN  [RowOutcome(s, fetched) EXCEPT !.row = Some(fetched)]

oracle_evidence_agent(s, outcome) ==
    IF ("user_description" \notin DOMAIN s) \/ s["user_description"] = ""
    THEN EvidenceResult(NotFound(s), "never", {})
    ELSE IF outcome.fault # "none"
    THEN Except(s, outcome.fault)
    ELSE LET fetched == Aggregate(outcome.table)
         IN  [RowOutcome(s, fetched) EXCEPT !.row = Some(fetched)]

\* ------------------------------------------------------------ knowledge
\* llm.invoke raises, or result.content is a str, or a list whose first
\* element is a dict with or without "text"
KnowledgeReplies ==
    {[kind |-> "raise"]}
    \cup {[kind |-> "str", text |-> x] : x \in {"restart the gateway pods", ""}}
    \cup {[kind |-> "list", first |-> d] :
              d \in {[text |-> "restart the gateway pods"], [type |-> "text"]}}

knowledge_agent(s, reply) ==
    IF ("incident_signature" \notin DOMAIN s) \/ s["incident_signature"] = None
    THEN Raise(s)                       \* signature.get on None
    ELSE IF reply.kind = "raise"
    THEN Raise(s)                       \* llm.invoke is not in a try
    ELSE LET response_text ==
                 IF reply.kind = "list"
                 THEN (IF "text" \in DOMAIN reply.first THEN reply.first["text"] ELSE "")
                 ELSE reply.text
         IN  Return(Put(s, "knowledge_signal",
                        Some([known_cause |-> response_text,
                              suggested_fix |-> response_text,
                              confidence_hint |-> 50])))

\* ------------------------------------------------------------ orchestrator
SYSTEM_ESCALATION_MESSAGE ==
    <<"Your issue has been escalated for manual review due to system constraints.">>

REQUIRES_REVIEW_MESSAGE ==
    <<"Your issue requires additional review by our engineering team.">>

\* str(x) inside an f-string
Str(x) == IF x = None THEN "None" ELSE x[1]

AutoResolutionMessage(common_resolution) ==
    <<"We identified a known issue and applied a proven resolution: ",
      Str(common_resolution), ".">>

\* a confidence with the two weights exchanged
Confidence_SwappedWeights(similarity, success_rate) ==
    RoundHalfEven(SUCCESS_WEIGHT * similarity * success_rate.den
                      + SIMILARITY_WEIGHT * 100 * success_rate.num,
                  100 * success_rate.den)

\* a confidence that adds the two signals without weighting them
Confidence_Unweighted(similarity, success_rate) ==
    RoundHalfEven(100 * similarity * success_rate.den
                      + 100 * 100 * success_rate.num,
                  100 * success_rate.den)

\* a confidence rounded up to the next hundredth
Confidence_RoundsUp(similarity, success_rate) ==
    (SIMILARITY_WEIGHT * similarity * success_rate.den
         + SUCCESS_WEIGHT * 100 * success_rate.num
         + 100 * success_rate.den - 1) \div (100 * success_rate.den)

\* round(SIMILARITY_WEIGHT * similarity + SUCCESS_WEIGHT * success_rate, 2)
Confidence(similarity, success_rate) ==
    RoundHalfEven(SIMILARITY_WEIGHT * similarity * success_rate.den
                      + SUCCESS_WEIGHT * 100 * success_rate.num,
                  100 * success_rate.den)

\* a threshold test that also sends confidence = threshold to the human
RequiresHuman_AtThreshold(confidence) == confidence <= CONFIDENCE_THRESHOLD

\* confidence < CONFIDENCE_THRESHOLD
RequiresHuman(confidence) == confidence < CONFIDENCE_THRESHOLD

\* a FOUND path that auto-resolves whatever requires_human says
FoundDecision_Always(s, evidence) ==
    Put(Put(s, "final_decision", Some("AUTO_RESOLUTION")),
        "response_message", AutoResolutionMessage(evidence.common_resolution))

\* a FOUND path that auto-resolves without writing the customer message
FoundDecision_OmitsMessage(s, evidence) ==
    IF s["requires_human"] # Some(TRUE)
    THEN Put(s, "final_decision", Some("AUTO_RESOLUTION"))
    ELSE s

\* the end of the FOUND path: auto-resolve unless a human is required
\* an engine that auto-resolves only when the evidence names an action
FoundDecision_NeedsResolution(s, evidence) ==
    IF s["requires_human"] # Some(TRUE) /\ evidence.common_resolution # None
    THEN Put(Put(s, "final_decision", Some("AUTO_RESOLUTION")),
             "response_message", AutoResolutionMessage(evidence.common_resolution))
    ELSE s

FoundDecision(s, evidence) ==
    IF s["requires_human"] # Some(TRUE)
    THEN Put(Put(s, "final_decision", Some("AUTO_RESOLUTION")),
             "response_message", AutoResolutionMessage(evidence.common_resolution))
    ELSE s

orchestrator(s) ==
    IF "evidence_status" \notin DOMAIN s
    THEN Raise(s)                       \* KeyError
    ELSE IF s["evidence_status"] = "ERROR"
    THEN Return(Put(Put(Put(Put(s,
            "confidence", Some(ERROR_CONFIDENCE)),
            "requires_human", Some(TRUE)),
            "final_decision", Some("SYSTEM_ESCALATION")),
            "response_message", SYSTEM_ESCALATION_MESSAGE))
    ELSE IF s["evidence_status"] = "NOT_FOUND"
    THEN Return(Put(Put(Put(Put(s,
            "confidence", Some(NO_EVIDENCE_CONFIDENCE)),
            "requires_human", Some(TRUE)),
            "final_decision", Some("REQUIRES_REVIEW")),
            "response_message", REQUIRES_REVIEW_MESSAGE))
    ELSE IF s["oracle_evidence"] = None
    THEN Raise(s)                       \* None["similarity_score"]
    ELSE LET evidence == s["oracle_evidence"][1]
             confidence == Confidence(evidence.similarity_score, evidence.success_rate)
         IN  Return(FoundDecision(
                        Put(Put(s, "confidence", Some(confidence)),
                            "requires_human", Some(RequiresHuman(confidence))),
                        evidence))

\* ------------------------------------------------------------ human_approval
HUMAN_APPROVED_MESSAGE ==
    <<"Your issue has been reviewed and an appropriate action has been taken.">>

HUMAN_REJECTED_MESSAGE ==
    <<"Your issue has been reviewed and escalated for further investigation.">>

\* what the reviewer types, as a sequence of characters
ReviewerInputs ==
    {<<"y", "e", "s">>, <<" ", "Y", "e", "S", " ">>, <<"n", "o">>, << >>,
     <<"y", "e", "s", "!">>, <<"y", " ", "e", "s">>}

Whitespace == {" ", "\t"}

RECURSIVE LStrip(_)
LStrip(w) == IF w # << >> /\ Head(w) \in Whitespace THEN LStrip(Tail(w)) ELSE w

RECURSIVE RStrip(_)
RStrip(w) ==
    IF w # << >> /\ w[Len(w)] \in Whitespace THEN RStrip(SubSeq(w, 1, Len(w) - 1)) ELSE w

\* str.strip()
Strip(w) == RStrip(LStrip(w))

LowerChar(c) ==
    CASE c = "Y" -> "y" [] c = "E" -> "e" [] c = "S" -> "s"
      [] c = "N" -> "n" [] c = "O" -> "o" [] OTHER -> c

\* a gate that compares the answer without lower-casing it
Lower_Identity(w) == w

\* str.lower()
Lower(w) == [i \in 1 .. Len(w) |-> LowerChar(w[i])]

\* a gate that leaves a decision the orchestrator has already made
human_approval_KeepsDecision(s, typed) ==
    IF s["final_decision"] # None
    THEN Return(s)
    ELSE IF Lower(Strip(typed)) = <<"y", "e", "s">>
    THEN Return(Put(Put(s, "final_decision", Some("HUMAN_APPROVED")),
                    "response_message", HUMAN_APPROVED_MESSAGE))
    ELSE Return(Put(Put(s, "final_decision", Some("HUMAN_REJECTED")),
                    "response_message", HUMAN_REJECTED_MESSAGE))

\* a gate that records the verdict and leaves the message alone
human_approval_DecisionOnly(s, typed) ==
    IF Lower(Strip(typed)) = <<"y", "e", "s">>
    THEN Return(Put(s, "final_decision", Some("HUMAN_APPROVED")))
    ELSE Return(Put(s, "final_decision", Some("HUMAN_REJECTED")))

human_approval(s, typed) ==
    LET decision == Lower(Strip(typed))
    IN  IF decision = <<"y", "e", "s">>
        THEN Return(Put(Put(s, "final_decision", Some("HUMAN_APPROVED")),
                        "response_message", HUMAN_APPROVED_MESSAGE))
        ELSE Return(Put(Put(s, "final_decision", Some("HUMAN_REJECTED")),
                        "response_message", HUMAN_REJECTED_MESSAGE))

\* ------------------------------------------------------------ decision_graph
\* a conditional edge with its two targets exchanged
Route_Inverted(s) == IF s["requires_human"] = Some(TRUE) THEN "END" ELSE "human_approval"

\* a conditional edge that lets a strong knowledge hint skip the human
Route_TrustsHint(s) ==
    IF s["requires_human"] = Some(TRUE)
       /\ ~(s["knowledge_signal"] # None
              /\ s["knowledge_signal"][1].confidence_hint >= 100)
    THEN "human_approval"
    ELSE "END"

\* the conditional edge out of the orchestrator
Route(s) == IF s["requires_human"] = Some(TRUE) THEN "human_approval" ELSE "END"

\* a graph whose edge into the knowledge node leads past it
After_SkipsKnowledge(result, next) ==
    IF result.raised THEN "RAISED"
    ELSE IF next = "knowledge" THEN "orchestrator" ELSE next

\* where the graph goes after a node: its edge, or out with the exception
After(result, next) == IF result.raised THEN "RAISED" ELSE next

Init ==
    /\ state \in {initial_state(d) : d \in Descriptions}
    /\ pc = "interpreter"
    /\ visited = << >>
    /\ failed = {}
    /\ conn = "never"
    /\ reply_json = "none"
    /\ fetched_row = None
    /\ answer = None
    /\ playbooks = None

Interpreter ==
    /\ pc = "interpreter"
    /\ \E reply \in ClassifierReplies :
          LET result == incident_understanding_agent(state, reply)
          IN  /\ state' = result.state
              /\ pc' = After(result, "oracle_evidence")
              /\ failed' = IF reply.kind = "raise" THEN failed \cup {"classify"} ELSE failed
              /\ reply_json' = IF reply.kind = "raise" THEN "raise" ELSE reply.json
    /\ visited' = Append(visited, "interpreter")
    /\ UNCHANGED <<conn, fetched_row, answer, playbooks>>

\* what the store can do to this run's query
Offered ==
    IF playbooks = None
    THEN StoreOutcomes
    ELSE {[fault |-> "none", table |-> playbooks[1]]}

OracleEvidence ==
    /\ pc = "oracle_evidence"
    /\ \E outcome \in Offered :
          LET result == oracle_evidence_agent(state, outcome)
          IN  /\ state' = result.state
              /\ pc' = After(result, "knowledge")
              /\ failed' = failed \cup result.failed
              /\ conn' = result.conn
              /\ fetched_row' = result.row
    /\ visited' = Append(visited, "oracle_evidence")
    /\ UNCHANGED <<reply_json, answer, playbooks>>

Knowledge ==
    /\ pc = "knowledge"
    /\ \E reply \in KnowledgeReplies :
          LET result == knowledge_agent(state, reply)
          IN  /\ state' = result.state
              /\ pc' = After(result, "orchestrator")
              /\ failed' = IF reply.kind = "raise" THEN failed \cup {"generate"} ELSE failed
    /\ visited' = Append(visited, "knowledge")
    /\ UNCHANGED <<conn, reply_json, fetched_row, answer, playbooks>>

Orchestrator ==
    /\ pc = "orchestrator"
    /\ LET result == orchestrator(state)
       IN  /\ state' = result.state
           /\ pc' = IF result.raised THEN "RAISED" ELSE Route(result.state)
    /\ visited' = Append(visited, "orchestrator")
    /\ UNCHANGED <<failed, conn, reply_json, fetched_row, answer, playbooks>>

HumanApproval ==
    /\ pc = "human_approval"
    /\ \E typed \in ReviewerInputs :
          LET result == human_approval(state, typed)
          IN  /\ state' = result.state
              /\ pc' = After(result, "END")
              /\ answer' = Some(typed)
    /\ visited' = Append(visited, "human_approval")
    /\ UNCHANGED <<failed, conn, reply_json, fetched_row, playbooks>>

\* The orchestrator as a function of its input: every FOUND evidence on the
\* two-decimal grid, and the NOT_FOUND and ERROR states.
AfterKnowledge ==
    Put(Put(initial_state("payment page times out"),
            "incident_signature", Some(FALLBACK_SIGNATURE)),
        "knowledge_signal",
        Some([known_cause |-> "", suggested_fix |-> "", confidence_hint |-> 50]))

EvidenceGrid ==
    {[incident_count |-> 100,
      success_rate |-> Rat(r, 100),
      common_resolution |-> Some("rollback deployment"),
      similarity_score |-> sim] : sim \in 0 .. 100, r \in 0 .. 100}

OrchestratorInputs ==
    {Put(Put(AfterKnowledge, "oracle_evidence", Some(e)), "evidence_status", "FOUND") :
        e \in EvidenceGrid}
    \cup {NotFound(AfterKnowledge), HardFailure(AfterKnowledge)}

OrchInit ==
    /\ state \in OrchestratorInputs
    /\ pc = "orchestrator"
    /\ visited = <<"interpreter", "oracle_evidence", "knowledge">>
    /\ failed = {}
    /\ conn = "closed"
    /\ reply_json = "invalid"
    /\ fetched_row = None
    /\ answer = None
    /\ playbooks = None

OrchNext ==
    \/ Orchestrator
    \/ HumanApproval

OrchSpec == OrchInit /\ [][OrchNext]_vars

\* The aggregate query as a function of the table: every table within the
\* bound, queried once without a fault.
AfterInterpreter ==
    Put(initial_state("payment page times out"),
        "incident_signature", Some(FALLBACK_SIGNATURE))

AggInit ==
    /\ state = AfterInterpreter
    /\ pc = "oracle_evidence"
    /\ visited = <<"interpreter">>
    /\ failed = {}
    /\ conn = "never"
    /\ reply_json = "invalid"
    /\ fetched_row = None
    /\ answer = None
    /\ playbooks \in {Some(t) : t \in Tables}

AggNext == OracleEvidence

AggSpec == AggInit /\ [][AggNext]_vars

Next ==
    \/ Interpreter
    \/ OracleEvidence
    \/ Knowledge
    \/ Orchestrator
    \/ HumanApproval

Spec == Init /\ [][Next]_vars

\* graph.invoke runs the node the graph is at until it reaches END: a node
\* that can run does run (input() blocks only until the reviewer answers).
LiveSpec == Spec /\ WF_vars(Next)

\* ============================================================ claims
Ran(node) == \E i \in DOMAIN visited : visited[i] = node

StoreCalls == {"embedding", "connect", "execute", "fetch"}

TerminalOutcomes ==
    {Some("AUTO_RESOLUTION"), Some("HUMAN_APPROVED"), Some("HUMAN_REJECTED")}

ProvisionalOutcomes == {Some("REQUIRES_REVIEW"), Some("SYSTEM_ESCALATION")}

\* C1: the Human Gate is visited if and only if the orchestrator left
\* requires_human = true; with requires_human = false the run goes from
\* the orchestrator directly to END.
C1_HumanGateIffRequiresHuman ==
    /\ ~Ran("orchestrator") => pc # "human_approval" /\ ~Ran("human_approval")
    /\ Ran("orchestrator") /\ pc # "RAISED" =>
          /\ (pc = "human_approval" \/ Ran("human_approval"))
                <=> state["requires_human"] = Some(TRUE)
          /\ state["requires_human"] = Some(FALSE) =>
                /\ pc = "END"
                /\ visited[Len(visited)] = "orchestrator"
    /\ pc = "END" => (Ran("human_approval") <=> state["requires_human"] = Some(TRUE))

C1_Witness ==
    /\ pc = "END"
    /\ Ran("human_approval")
    /\ state["requires_human"] = Some(TRUE)
    /\ state["evidence_status"] = "FOUND"

\* C2: final_decision is never overwritten once set, and the Human Gate is
\* entered only with requires_human = true and final_decision still unset.
C2_FinalDecisionSetOnce ==
    [][/\ state["final_decision"] # None =>
              state'["final_decision"] = state["final_decision"]
       /\ pc' = "human_approval" =>
              /\ state'["requires_human"] = Some(TRUE)
              /\ state'["final_decision"] = None]_vars

\* C2, as amended: an AUTO_RESOLUTION, HUMAN_APPROVED or HUMAN_REJECTED
\* decision is never overwritten; the only overwrite is the Human Gate
\* replacing the orchestrator's REQUIRES_REVIEW or SYSTEM_ESCALATION by its
\* verdict; the Human Gate is entered only with requires_human = true and
\* final_decision unset, REQUIRES_REVIEW or SYSTEM_ESCALATION.
C2_OnlyProvisionalDecisionOverwritten ==
    [][/\ state["final_decision"] \in TerminalOutcomes =>
              state'["final_decision"] = state["final_decision"]
       /\ (state["final_decision"] # None
               /\ state'["final_decision"] # state["final_decision"]) =>
              /\ pc = "human_approval"
              /\ state["final_decision"] \in ProvisionalOutcomes
              /\ state'["final_decision"] \in {Some("HUMAN_APPROVED"), Some("HUMAN_REJECTED")}
       /\ pc' = "human_approval" =>
              /\ state'["requires_human"] = Some(TRUE)
              /\ state'["final_decision"] \in {None} \cup ProvisionalOutcomes]_vars

C2_Witness ==
    /\ pc = "END"
    /\ Ran("human_approval")
    /\ state["evidence_status"] = "NOT_FOUND"
    /\ state["final_decision"] = Some("HUMAN_APPROVED")

\* C3: a run that reaches END ends with final_decision AUTO_RESOLUTION,
\* HUMAN_APPROVED or HUMAN_REJECTED, never unset and never another value.
C3_TerminalOutcomes ==
    pc = "END" => state["final_decision"] \in TerminalOutcomes

C3_Witness ==
    /\ pc = "END"
    /\ state["evidence_status"] = "ERROR"
    /\ state["final_decision"] = Some("HUMAN_REJECTED")

C5_RequiresHumanPolicy ==
    (Ran("orchestrator") /\ pc # "RAISED") =>
        /\ state["evidence_status"] \in {"ERROR", "NOT_FOUND"} =>
              state["requires_human"] = Some(TRUE)
        /\ state["evidence_status"] = "FOUND" =>
              /\ state["confidence"] # None
              /\ state["requires_human"] = Some(state["confidence"][1] < 75)

C5_Witness ==
    /\ Ran("orchestrator")
    /\ state["evidence_status"] = "FOUND"
    /\ state["confidence"] = Some(75)
    /\ state["requires_human"] = Some(FALSE)

\* C6: for FOUND evidence on the two-decimal grid the orchestrator sets
\* confidence to 0.6 * similarity_score + 0.4 * success_rate rounded to the
\* nearest hundredth; for ERROR 0.0 and for NOT_FOUND 0.3; (0.9, 0.8) gives
\* 0.86, AUTO_RESOLUTION and no human, (0.9, 0.1) gives 0.58 and a human.
C6_ConfidenceFormula ==
    Ran("orchestrator") =>
        /\ state["confidence"] # None
        /\ state["evidence_status"] = "ERROR" => state["confidence"] = Some(0)
        /\ state["evidence_status"] = "NOT_FOUND" => state["confidence"] = Some(30)
        /\ state["evidence_status"] = "FOUND" =>
              LET e == state["oracle_evidence"][1]
                  c == state["confidence"][1]
                  den == e.success_rate.den
                  \* 10000 * den * (0.6 * similarity_score + 0.4 * success_rate)
                  exact == 60 * e.similarity_score * den + 4000 * e.success_rate.num
              IN  /\ 100 * den * c - exact <= 50 * den
                  /\ exact - 100 * den * c <= 50 * den
                  /\ (e.similarity_score = 90 /\ e.success_rate = Rat(80, 100)) =>
                        /\ c = 86
                        /\ state["requires_human"] = Some(FALSE)
                        /\ state["final_decision"] = Some("AUTO_RESOLUTION")
                  /\ (e.similarity_score = 90 /\ e.success_rate = Rat(10, 100)) =>
                        /\ c = 58
                        /\ state["requires_human"] = Some(TRUE)

C6_Witness ==
    /\ pc = "END"
    /\ state["evidence_status"] = "FOUND"
    /\ state["oracle_evidence"][1].similarity_score = 90
    /\ state["oracle_evidence"][1].success_rate = Rat(80, 100)
    /\ state["confidence"] = Some(86)
    /\ state["final_decision"] = Some("AUTO_RESOLUTION")

\* C7: on the FOUND path the orchestrator sets final_decision to
\* AUTO_RESOLUTION and a message embedding the best resolution exactly when
\* requires_human is false; when it is true it leaves final_decision unset
\* and writes no response_message.
C7_FoundPathFrame ==
    [][(pc = "orchestrator" /\ state["evidence_status"] = "FOUND") =>
          /\ state'["requires_human"] \in {Some(TRUE), Some(FALSE)}
          /\ state'["requires_human"] = Some(FALSE) =>
                /\ state'["final_decision"] = Some("AUTO_RESOLUTION")
                /\ "response_message" \in DOMAIN state'
                /\ \E i \in DOMAIN state'["response_message"] :
                      state'["response_message"][i]
                          = Str(state["oracle_evidence"][1].common_resolution)
          /\ state'["requires_human"] = Some(TRUE) =>
                /\ state'["final_decision"] = None
                /\ state["final_decision"] = None
                /\ "response_message" \notin DOMAIN state'
                /\ "response_message" \notin DOMAIN state]_vars

C7_Witness ==
    /\ pc = "END"
    /\ visited[Len(visited)] = "orchestrator"
    /\ state["evidence_status"] = "FOUND"
    /\ state["requires_human"] = Some(FALSE)
    /\ state["final_decision"] = Some("AUTO_RESOLUTION")
    /\ state["response_message"][2] = "rollback deployment"

\* C8: in every state after the Evidence Retriever has returned,
\* evidence_status is FOUND if and only if oracle_evidence is not null.
C8_FoundIffEvidence ==
    Ran("oracle_evidence") =>
        /\ "evidence_status" \in DOMAIN state
        /\ state["evidence_status"] = "FOUND" <=> state["oracle_evidence"] # None

C8_Witness ==
    /\ pc = "END"
    /\ Ran("human_approval")
    /\ state["evidence_status"] = "FOUND"
    /\ state["oracle_evidence"] # None

\* C9: whatever store call fails, the Evidence Retriever returns normally
\* with evidence_status ERROR and oracle_evidence null; no exception leaves
\* it, and it returns with exactly one of FOUND, NOT_FOUND, ERROR set.
C9_RetrieverAbsorbsFaults ==
    [][pc = "oracle_evidence" =>
          /\ pc' = "knowledge"
          /\ "evidence_status" \in DOMAIN state'
          /\ state'["evidence_status"] \in {"FOUND", "NOT_FOUND", "ERROR"}
          /\ failed' # failed <=> state'["evidence_status"] = "ERROR"
          /\ failed' # failed => state'["oracle_evidence"] = None]_vars

C9_Witness ==
    /\ pc = "knowledge"
    /\ "execute" \in failed
    /\ state["evidence_status"] = "ERROR"
    /\ state["oracle_evidence"] = None

\* C10: no exception of an external dependency crosses a component
\* boundary: when the classification call or the generation call fails,
\* the component still returns a state and the run does not abort.
C10_NoExceptionCrossesBoundary ==
    ("classify" \in failed \/ "generate" \in failed) => pc # "RAISED"

\* C11: whatever text the classification model returns (no JSON, JSON that
\* is no object, an object with missing, extra or out-of-vocabulary
\* values), the classifier returns a signature with incident_type in
\* INCIDENT_TYPES, affected_area in AFFECTED_AREAS and a non-empty context.
C11_ClassifierAlwaysNormalizes ==
    reply_json \notin {"none", "raise"} =>
        /\ state["incident_signature"] # None
        /\ state["incident_signature"][1]["incident_type"] \in INCIDENT_TYPES
        /\ state["incident_signature"][1]["affected_area"] \in AFFECTED_AREAS
        /\ state["incident_signature"][1]["context"] # ""

\* C12: when the classification reply is not parseable as JSON the
\* signature is exactly the fallback and the run goes on through the
\* retriever, the knowledge node and the orchestrator as any other run.
C12_MalformedReplyUsesFallback ==
    reply_json = "invalid" =>
        /\ state["incident_signature"] = Some(FALLBACK_SIGNATURE)
        /\ pc # "interpreter"
        /\ pc = "RAISED" => "generate" \in failed
        /\ Ran("oracle_evidence") => "evidence_status" \in DOMAIN state
        /\ Ran("knowledge") /\ pc # "RAISED" => state["knowledge_signal"] # None
        /\ Ran("orchestrator") => state["confidence"] # None

C12_Witness ==
    /\ reply_json = "invalid"
    /\ pc = "END"
    /\ state["incident_signature"] = Some(FALLBACK_SIGNATURE)
    /\ state["evidence_status"] = "FOUND"
    /\ state["final_decision"] = Some("AUTO_RESOLUTION")

BestDistance == fetched_row[1][4][1]

Queried == fetched_row # None /\ fetched_row[1][1] > 0

\* C13: a best distance greater than or equal to MAX_VECTOR_DISTANCE gives
\* NOT_FOUND with null evidence; FOUND only for a best distance strictly
\* below the maximum.
C13_AtOrAboveMaximumIsNotFound ==
    Queried =>
        /\ BestDistance >= 600 =>
              /\ state["evidence_status"] = "NOT_FOUND"
              /\ state["oracle_evidence"] = None
        /\ state["evidence_status"] = "FOUND" => BestDistance < 600

\* C13, as amended: a best distance strictly greater than the maximum
\* gives NOT_FOUND with null evidence; a best distance up to and including
\* the maximum gives FOUND.
C13_AboveMaximumIsNotFound ==
    Queried =>
        /\ BestDistance > 600 =>
              /\ state["evidence_status"] = "NOT_FOUND"
              /\ state["oracle_evidence"] = None
        /\ BestDistance <= 600 =>
              /\ state["evidence_status"] = "FOUND"
              /\ state["oracle_evidence"] # None

C13_Witness ==
    /\ Queried
    /\ BestDistance = 600
    /\ state["evidence_status"] = "FOUND"
    /\ state["oracle_evidence"][1].similarity_score = 40

\* C14: a FOUND similarity_score is max(0, 1 - best_distance) rounded to
\* two decimals, so distance 0 gives 1.0; it lies in [0, 1] and is never
\* below 1 - MAX_VECTOR_DISTANCE = 0.4.
C14_SimilarityScore ==
    (Queried /\ state["evidence_status"] = "FOUND") =>
        LET score == state["oracle_evidence"][1].similarity_score
            exact == IF 1000 - BestDistance > 0 THEN 1000 - BestDistance ELSE 0
        IN  /\ 10 * score - exact <= 5
            /\ exact - 10 * score <= 5
            /\ BestDistance = 0 => score = 100
            /\ score >= 0 /\ score <= 100
            /\ score >= 40

C14_Witness ==
    /\ Queried
    /\ BestDistance = 432
    /\ state["evidence_status"] = "FOUND"
    /\ state["oracle_evidence"][1].similarity_score = 57

\* C15: with an empty description the retriever returns NOT_FOUND with
\* null evidence without embedding or connecting, and the run goes on to
\* the orchestrator, which sets the no-evidence confidence and
\* requires_human = true.
C15_EmptyDescriptionSkipsRetrieval ==
    (state["user_description"] = "" /\ Ran("oracle_evidence")) =>
        /\ state["evidence_status"] = "NOT_FOUND"
        /\ state["oracle_evidence"] = None
        /\ conn = "never"
        /\ fetched_row = None
        /\ failed \cap StoreCalls = {}
        /\ pc = "RAISED" => "generate" \in failed
        /\ Ran("orchestrator") =>
              /\ state["confidence"] = Some(30)
              /\ state["requires_human"] = Some(TRUE)
              /\ pc \in {"human_approval", "END"}

C15_Witness ==
    /\ state["user_description"] = ""
    /\ pc = "human_approval"
    /\ state["evidence_status"] = "NOT_FOUND"
    /\ state["confidence"] = Some(30)
    /\ conn = "never"

Order == <<"interpreter", "oracle_evidence", "knowledge", "orchestrator", "human_approval">>

\* C16: the nodes run one at a time in the order interpreter,
\* oracle_evidence, knowledge, orchestrator, then optionally
\* human_approval, then END: the nodes that have run are always a prefix of
\* that order (so none runs twice or before its predecessor), a run that
\* reaches END has run the first four, each step runs the node the graph
\* is at, and nothing runs after END.
C16_StrictSequentialOrder ==
    /\ [](/\ Len(visited) <= 5
          /\ visited = SubSeq(Order, 1, Len(visited))
          /\ pc \notin {"END", "RAISED"} => pc = Order[Len(visited) + 1]
          /\ pc = "END" => Len(visited) \in {4, 5})
    /\ [][/\ pc \notin {"END", "RAISED"}
          /\ visited' = Append(visited, pc)
          /\ pc' \in {"END", "RAISED"} \/ pc' = Order[Len(visited') + 1]]_vars

C16_Witness ==
    /\ pc = "END"
    /\ visited = Order

RECURSIVE AllWhitespace(_)
AllWhitespace(w) == w = << >> \/ (Head(w) \in {" ", "\t"} /\ AllWhitespace(Tail(w)))

\* the answers that read "yes" once trimmed and lower-cased
IsYes(w) ==
    \E i \in 1 .. Len(w) :
        /\ i + 2 <= Len(w)
        /\ w[i] \in {"y", "Y"} /\ w[i + 1] \in {"e", "E"} /\ w[i + 2] \in {"s", "S"}
        /\ AllWhitespace(SubSeq(w, 1, i - 1))
        /\ AllWhitespace(SubSeq(w, i + 3, Len(w)))

\* C17: an answer that is "yes" after trimming and lower-casing gives
\* HUMAN_APPROVED with the action-taken message, every other answer (the
\* empty one included) gives HUMAN_REJECTED with the escalation message,
\* and the run is at END once the gate has answered.
C17_HumanGateBinaryAndTerminal ==
    answer # None =>
        /\ pc = "END"
        /\ visited[Len(visited)] = "human_approval"
        /\ IF IsYes(answer[1])
           THEN /\ state["final_decision"] = Some("HUMAN_APPROVED")
                /\ state["response_message"] = HUMAN_APPROVED_MESSAGE
           ELSE /\ state["final_decision"] = Some("HUMAN_REJECTED")
                /\ state["response_message"] = HUMAN_REJECTED_MESSAGE

C17_Witness ==
    /\ answer = Some(<<" ", "Y", "e", "S", " ">>)
    /\ pc = "END"
    /\ state["final_decision"] = Some("HUMAN_APPROVED")

\* C18: confidence and requires_human change only in the orchestrator
\* step, both in that one step and both from unset to set; every other
\* node leaves them as they are, so each is assigned once per run.
C18_ConfidenceAndRequiresHumanOnceTogether ==
    [][/\ (state'["confidence"] # state["confidence"]
            \/ state'["requires_human"] # state["requires_human"]) =>
              /\ pc = "orchestrator"
              /\ state["confidence"] = None /\ state["requires_human"] = None
              /\ state'["confidence"] # None /\ state'["requires_human"] # None
       /\ pc # "orchestrator" =>
              /\ state'["confidence"] = state["confidence"]
              /\ state'["requires_human"] = state["requires_human"]
       /\ (pc = "orchestrator" /\ pc' # "RAISED") =>
              /\ state["confidence"] = None /\ state["requires_human"] = None
              /\ state'["confidence"] # None /\ state'["requires_human"] # None]_vars

C18_Witness ==
    /\ pc = "END"
    /\ Ran("human_approval")
    /\ state["confidence"] = Some(0)
    /\ state["requires_human"] = Some(TRUE)
    /\ state["evidence_status"] = "ERROR"

\* C19: response_message is set in every state in which final_decision is
\* set, and a step assigns final_decision exactly when it assigns
\* response_message.
C19_MessageWheneverDecision ==
    /\ [](state["final_decision"] # None => "response_message" \in DOMAIN state)
    /\ [][/\ state'["final_decision"] # state["final_decision"] =>
                /\ "response_message" \in DOMAIN state'
                /\ pc \in {"orchestrator", "human_approval"}
          /\ (Get(state', "response_message") # Get(state, "response_message"))
                <=> (state'["final_decision"] # state["final_decision"])]_vars

C19_Witness ==
    /\ pc = "END"
    /\ Ran("human_approval")
    /\ state["evidence_status"] = "FOUND"
    /\ state["final_decision"] = Some("HUMAN_REJECTED")
    /\ state["response_message"] = HUMAN_REJECTED_MESSAGE

\* the states that agree with s on evidence_status, similarity_score and
\* success_rate and differ in the description, the signature, the
\* knowledge signal, the match count and the suggested action
Variants(s) ==
    LET others == {Put(Put(Put(s, "user_description", d), "incident_signature", g),
                       "knowledge_signal", k) :
                     d \in Descriptions \cup {"other"},
                     g \in {None, Some(FALLBACK_SIGNATURE), s["incident_signature"]},
                     k \in {None, s["knowledge_signal"]}}
    IN  IF s["oracle_evidence"] = None
        THEN others
        ELSE {Put(o, "oracle_evidence",
                  Some([s["oracle_evidence"][1] EXCEPT
                          !.incident_count = n, !.common_resolution = a])) :
                o \in others, n \in {1, 7}, a \in ActionValues}

Decided(s) == <<s["confidence"], s["requires_human"], s["final_decision"]>>

\* C20: the orchestrator's confidence, requires_human and final_decision
\* are the same for every state that agrees with the one it ran on in
\* evidence_status, similarity_score and success_rate.
C20_DependsOnlyOnThreeInputs ==
    [][pc = "orchestrator" =>
          \A other \in Variants(state) :
              /\ orchestrator(other).raised = (pc' = "RAISED")
              /\ Decided(orchestrator(other).state) = Decided(state')]_vars

C20_Witness ==
    /\ pc = "END"
    /\ state["evidence_status"] = "FOUND"
    /\ state["oracle_evidence"][1].common_resolution = None
    /\ state["final_decision"] = Some("AUTO_RESOLUTION")

\* what the knowledge node could have stored: nothing, or any cause, fix
\* and weight
KnowledgeSignals ==
    {None} \cup
    {Some([known_cause |-> c, suggested_fix |-> f, confidence_hint |-> w]) :
        c \in {"restart the gateway pods", ""},
        f \in {"restart the gateway pods", ""},
        w \in {0, 50, 100}}

HintVariants(s) == {Put(s, "knowledge_signal", k) : k \in KnowledgeSignals}

\* C21: the knowledge hint decides nothing: whatever knowledge_signal
\* holds, the orchestrator gives the same confidence, requires_human,
\* final_decision, response_message and route, and the Human Gate, for the
\* same answer, the same final_decision and response_message; the weight
\* the knowledge node stores is always 0.5.
C21_KnowledgeHintNotDecisionBearing ==
    /\ [](state["knowledge_signal"] # None =>
            state["knowledge_signal"][1].confidence_hint = 50)
    /\ [][/\ pc = "orchestrator" =>
              \A other \in HintVariants(state) :
                  LET result == orchestrator(other)
                  IN  /\ result.raised = (pc' = "RAISED")
                      /\ Decided(result.state) = Decided(state')
                      /\ Get(result.state, "response_message")
                            = Get(state', "response_message")
                      /\ ~result.raised => Route(result.state) = pc'
          /\ pc = "human_approval" =>
              \A other \in HintVariants(state) :
                  LET result == human_approval(other, answer'[1])
                  IN  /\ result.raised = (pc' = "RAISED")
                      /\ Decided(result.state) = Decided(state')
                      /\ Get(result.state, "response_message")
                            = Get(state', "response_message")]_vars

C21_Witness ==
    /\ pc = "END"
    /\ Ran("human_approval")
    /\ state["knowledge_signal"] # None
    /\ state["knowledge_signal"][1].known_cause = "restart the gateway pods"
    /\ state["knowledge_signal"][1].confidence_hint = 50
    /\ state["final_decision"] = Some("HUMAN_APPROVED")

\* C22: whenever confidence has been assigned it lies in [0, 1], on the
\* FOUND path for every aggregate the retriever can produce and on the
\* NOT_FOUND and ERROR fallbacks.
C22_ConfidenceInUnitInterval ==
    state["confidence"] # None =>
        /\ state["confidence"][1] >= 0
        /\ state["confidence"][1] <= 100
        /\ state["evidence_status"] = "FOUND" =>
              /\ state["oracle_evidence"][1].similarity_score \in 0 .. 100
              /\ state["oracle_evidence"][1].success_rate.num
                    <= state["oracle_evidence"][1].success_rate.den

C22_Witness ==
    /\ Ran("orchestrator")
    /\ state["evidence_status"] = "FOUND"
    /\ state["oracle_evidence"][1].similarity_score = 100
    /\ state["oracle_evidence"][1].success_rate = Rat(1, 1)
    /\ state["confidence"] = Some(100)

\* the orders in which the rows with these ids can be met
Orders(ids) ==
    {o \in [1 .. Cardinality(ids) -> ids] :
        \A a, b \in 1 .. Cardinality(ids) : o[a] = o[b] => a = b}

\* one pass over the rows in the given order, keeping the count, the sum
\* of the success flags and the id of the best row so far (smaller
\* distance, then smaller id)
RECURSIVE Scan(_, _, _, _)
Scan(t, order, k, acc) ==
    IF k > Len(order)
    THEN acc
    ELSE LET id == order[k]
             better == \/ acc.best = 0
                       \/ t[id].distance < t[acc.best].distance
                       \/ (t[id].distance = t[acc.best].distance /\ id < acc.best)
         IN  Scan(t, order, k + 1,
                  [count |-> acc.count + 1,
                   sum |-> acc.sum + t[id].success,
                   best |-> IF better THEN id ELSE acc.best])

OnePass(t, order) == Scan(t, order, 1, [count |-> 0, sum |-> 0, best |-> 0])

\* C23: for every non-empty table the fetched aggregate is what one pass
\* over all rows gives, in whatever order the rows are met: the number of
\* rows, the mean success flag, and the action and the distance of one
\* and the same row, the one of minimum distance and, among those, of
\* smallest id; a FOUND evidence carries that count, mean and action.
C23_AggregateFromOnePass ==
    (Ran("oracle_evidence") /\ playbooks # None /\ DOMAIN playbooks[1] # {}) =>
        LET t == playbooks[1]
            row == fetched_row[1]
        IN  /\ fetched_row # None
            /\ \A order \in Orders(DOMAIN t) :
                  LET pass == OnePass(t, order)
                  IN  /\ row[1] = pass.count
                      /\ row[2] = Some(Rat(pass.sum, pass.count))
                      /\ row[3] = t[pass.best].action_taken
                      /\ row[4] = Some(t[pass.best].distance)
            /\ state["evidence_status"] = "FOUND" =>
                  /\ state["oracle_evidence"][1].incident_count = row[1]
                  /\ state["oracle_evidence"][1].success_rate = row[2][1]
                  /\ state["oracle_evidence"][1].common_resolution = row[3]

\* two rows at the same minimum distance with different actions, the
\* larger id successful and the smaller not
C23_Witness ==
    /\ Ran("oracle_evidence")
    /\ playbooks # None
    /\ DOMAIN playbooks[1] = {1, 2}
    /\ playbooks[1][1] = [distance |-> 418, action_taken |-> Some("rollback deployment"),
                           success |-> 0]
    /\ playbooks[1][2] = [distance |-> 418, action_taken |-> Some("restart payment gateway"),
                           success |-> 1]
    /\ state["evidence_status"] = "FOUND"
    /\ state["oracle_evidence"][1].common_resolution = Some("rollback deployment")
    /\ state["oracle_evidence"][1].success_rate = Rat(1, 2)
    /\ state["oracle_evidence"][1].incident_count = 2

\* C24: normalizing a signature the classifier has stored gives the same
\* signature back.
C24_NormalizationIdempotent ==
    state["incident_signature"] # None =>
        Normalize(state["incident_signature"][1]) = state["incident_signature"][1]

\* a reply with a type and an area outside the vocabularies and an empty
\* context, all three coerced
C24_Witness ==
    /\ reply_json = "object"
    /\ state["incident_signature"]
         = Some([incident_type |-> "unknown_but_classified",
                 affected_area |-> "general",
                 context |-> "unspecified",
                 severity |-> "high"])

\* C25: when no external call raises and the reviewer answers, the run
\* eventually reaches END, and there confidence, requires_human,
\* final_decision and response_message are all set.
C25_EveryRunReachesEnd ==
    \/ <>(failed # {})
    \/ <>(/\ pc = "END"
          /\ state["confidence"] # None
          /\ state["requires_human"] # None
          /\ state["final_decision"] # None
          /\ "response_message" \in DOMAIN state)

\* C26: a run auto-resolves only on FOUND evidence with a success_rate
\* above 0 and a similarity_score of at least 0.58; every run whose
\* evidence is ERROR or NOT_FOUND goes from the orchestrator to the Human
\* Gate.
C26_NoAutoResolutionOnWeakEvidence ==
    /\ state["final_decision"] = Some("AUTO_RESOLUTION") =>
          /\ state["evidence_status"] = "FOUND"
          /\ state["oracle_evidence"] # None
          /\ state["oracle_evidence"][1].success_rate.num > 0
          /\ state["oracle_evidence"][1].similarity_score >= 58
          /\ pc = "END"
          /\ ~Ran("human_approval")
    /\ (Ran("orchestrator") /\ state["evidence_status"] \in {"ERROR", "NOT_FOUND"}) =>
          /\ state["final_decision"] # Some("AUTO_RESOLUTION")
          /\ pc = "human_approval" \/ Ran("human_approval")

\* the weakest evidence that still auto-resolves: similarity 0.58 with
\* every past resolution successful
C26_Witness ==
    /\ state["final_decision"] = Some("AUTO_RESOLUTION")
    /\ state["oracle_evidence"][1].similarity_score = 58
    /\ state["oracle_evidence"][1].success_rate = Rat(1, 1)
    /\ state["confidence"] = Some(75)

\* C27: once the retriever has returned, on the FOUND, the NOT_FOUND and
\* the ERROR path alike, no store connection it opened is still open.
C27_ConnectionClosedOnReturn ==
    Ran("oracle_evidence") => conn \in {"never", "closed"}

====
